---- MODULE Spec2Model ----
(***************************************************************************)
(* Model of mooch/switcher.py: the credential-rotating execution engine    *)
(* (MoochSwitcher._execute), the target dispatch (MoochSwitcher.__call__)  *)
(* and the two wrappers built on it (MoochForOpenAIClient,                 *)
(* MoochForLiteLLMCompletion).                                             *)
(*                                                                         *)
(* Two call sites use the library one after the other.  Both are handed    *)
(* the same credentials and meet the same underlying service behaviour;    *)
(* each picks its own target and verbose flag.                             *)
(***************************************************************************)
EXTENDS Integers, Sequences, FiniteSets, TLC

(***************************************************************************)
(* Bounds and program constants                                            *)
(***************************************************************************)
\* longest credential list handed to the library
MaxPool == 3

\* most top-level calls made on one wrapper
MaxCalls == 2

\* api_key[:10] in the "Trying API key" line
MaskLen == 10

Sites == {1, 2}

(***************************************************************************)
(* Python values                                                           *)
(***************************************************************************)
NoneVal == [t |-> "None"]
Str(s) == [t |-> "str", v |-> s]
List(xs) == [t |-> "list", v |-> xs]
\* the int 123; its digits are kept only to give the record the same shape
IntVal == [t |-> "int", v |-> <<"1", "2", "3">>]

\* two credentials, one longer and one shorter than the displayed prefix
KeyA == Str(<<"s", "k", "-", "p", "r", "o", "j", "-", "k", "e", "y", "1">>)
KeyB == Str(<<"k", "2">>)
Keys == {KeyA, KeyB}

SeqsUpTo(S, n) == UNION {[1..m -> S] : m \in 0..n}

\* credential lists, the empty one included
Pools == {List(xs) : xs \in SeqsUpTo(Keys, MaxPool)}

\* lists that hold something that is no string
BadLists == {List(<<IntVal>>), List(<<KeyA, IntVal>>), List(<<IntVal, KeyB>>)}

\* the api_keys argument a caller may supply: one credential, a list of
\* credentials, or something that is neither
Inputs == Keys \cup Pools \cup {IntVal} \cup BadLists

\* the same credentials: the same argument, or one credential given once as
\* a string and once as a one-element list
SameCredentials(x, y) ==
    \/ x = y
    \/ x \in Keys /\ y = List(<<x>>)
    \/ y \in Keys /\ x = List(<<y>>)

\* what the wrapped target can be
Targets == {"openai.OpenAI", "litellm.completion", "unsupported_function",
            "openai.AsyncOpenAI"}

\* the verbose argument of MoochSwitcher.__call__ (None: use the default)
VerboseArgs == {"None", "True", "False"}

\* how the underlying call answers: a result, openai.RateLimitError, or
\* any other exception
Outcomes == {"ok", "rate", "fatal"}

\* a keyword that is not in a dict
Absent == [t |-> "absent"]

\* *args, **kwargs of a wrapper's constructor: none, or a base_url
NoOptions == [args |-> <<>>, kwargs |-> [base_url |-> Absent]]
SomeOptions == [args |-> <<>>, kwargs |-> [base_url |-> Str(<<"u">>)]]
OptionChoices == {NoOptions, SomeOptions}

\* *args, **kwargs of a top-level call: a model and messages, or those with
\* a positional argument and an api_key of the caller's own
PlainCall == [args |-> <<>>, kwargs |-> [model |-> "m", api_key |-> Absent]]
KeyedCall == [args |-> <<"pos">>,
              kwargs |-> [model |-> "m", api_key |-> Str(<<"o", "w", "n">>)]]
CallChoices == {PlainCall, KeyedCall}

\* an exception raised by the interpreter in the engine's own code
EngineError(type) == [type |-> type, at |-> 0, key |-> NoneVal]

isinstance_str(x) == x.t = "str"

VARIABLES
    arg,             \* arg[r]: the api_keys value site r supplies
    behav,           \* behav[p]: how the underlying call answers the p-th invocation of a run
    pc,              \* pc[r]: where call site r is
    target,          \* target[r]: what site r passed to mooch(...)
    factory,         \* factory[r]: what mooch(target, verbose) returned
    wrapper,         \* wrapper[r]: the constructed wrapper object
    api_keys,        \* api_keys[r]: the local api_keys of the running _execute
    verbose,         \* verbose[r]: the verbose parameter of the running _execute
    i,               \* i[r]: enumerate index of the current iteration
    last_error,      \* last_error[r]
    calls,           \* calls[r]: the invocations call_func(api_key) made so far
    out,             \* out[r]: the lines printed so far
    result,          \* result[r]: how the site's top-level activity ended
    opts,            \* opts[r]: the *args, **kwargs site r gives the factory
    kw,              \* kw[r]: the *args, **kwargs site r gives its top-level calls
    ncalls,          \* ncalls[r]: top-level calls made on the wrapper so far
    switched,        \* switched[r]: an earlier call on the wrapper hit a rate limit
    sent             \* sent[r]: what reached the wrapped target, attempt by attempt

vars == <<arg, behav, pc, target, factory, wrapper, api_keys,
          verbose, i, last_error, calls, out, result, opts, kw, ncalls,
          switched, sent>>

(***************************************************************************)
(* MoochSwitcher.__call__                                                  *)
(***************************************************************************)
\* MoochSwitcher(verbose): self.default_verbose = verbose
MoochSwitcher(vb) == [default_verbose |-> vb]

\* use_verbose = verbose if verbose is not None else self.default_verbose
UseVerbose(self, v) == IF v # "None" THEN v = "True" ELSE self.default_verbose

\* CallTarget with the else branch falling through to the LiteLLM wrapper
CallTarget_Fallthrough(t, use_verbose) ==
    IF t = "openai.OpenAI"
    THEN [kind |-> "factory", cls |-> "MoochForOpenAIClient", verbose |-> use_verbose]
    ELSE [kind |-> "factory", cls |-> "MoochForLiteLLMCompletion", verbose |-> use_verbose]

\* the if / elif / else on the target: a factory of one of the two wrapper
\* classes, or ValueError
CallTarget(t, use_verbose) ==
    IF t = "openai.OpenAI"
    THEN [kind |-> "factory", cls |-> "MoochForOpenAIClient", verbose |-> use_verbose]
    ELSE IF t = "litellm.completion"
    THEN [kind |-> "factory", cls |-> "MoochForLiteLLMCompletion", verbose |-> use_verbose]
    ELSE [kind |-> "raise", error |-> EngineError("ValueError")]

(***************************************************************************)
(* The wrappers' constructors                                              *)
(***************************************************************************)
\* api_keys[0]: the first element of a list, the first character of a str,
\* IndexError when there is none, TypeError on an int
GetItem0(x) ==
    IF x.t = "int" THEN [kind |-> "raise", error |-> EngineError("TypeError")]
    ELSE IF Len(x.v) = 0 THEN [kind |-> "raise", error |-> EngineError("IndexError")]
    ELSE IF x.t = "str" THEN [kind |-> "value", value |-> Str(<<x.v[1]>>)]
    ELSE [kind |-> "value", value |-> x.v[1]]

\* MoochForOpenAIClient.__init__: stores the arguments, then binds the client
\* itself to api_keys[0]; the object exists only if that succeeds
NewOpenAIClient(id, keys, vb, o) ==
    LET first == GetItem0(keys) IN
    IF first.kind = "raise" THEN first
    ELSE [kind |-> "object",
          object |-> [cls |-> "MoochForOpenAIClient", id |-> id, api_keys |-> keys,
                      verbose |-> vb, api_key |-> first.value,
                      init_args |-> o.args, init_kwargs |-> o.kwargs]]

\* MoochForLiteLLMCompletion.__init__: stores the arguments, nothing else
NewLiteLLMCompletion(id, keys, vb) ==
    [kind |-> "object",
     object |-> [cls |-> "MoochForLiteLLMCompletion", id |-> id, api_keys |-> keys,
                 verbose |-> vb, api_key |-> NoneVal]]

(***************************************************************************)
(* The wrappers' _call: what reaches the wrapped target                    *)
(***************************************************************************)
\* the identity of an object: the wrapper of site r, or the client built for
\* attempt p of top-level call c of site r
WrapperId(r) == [site |-> r, call |-> 0, at |-> 0]
ClientId(r, c, p) == [site |-> r, call |-> c, at |-> p]

\* MoochForOpenAIClient._call: a new openai.OpenAI bound to api_key with the
\* wrapper's init_args and init_kwargs, and create(*args, **kwargs) on it
OpenAICall(self, id, api_key, a) ==
    [fn |-> "chat.completions.create",
     client |-> [id |-> id, api_key |-> api_key,
                 args |-> self.init_args, kwargs |-> self.init_kwargs],
     args |-> a.args, kwargs |-> a.kwargs]

\* MoochForLiteLLMCompletion._call: kwargs['api_key'] = api_key on its own
\* copy of the keywords, then litellm.completion(*args, **kwargs)
LiteLLMCall(self, id, api_key, a) ==
    [fn |-> "litellm.completion", client |-> NoneVal, args |-> a.args,
     kwargs |-> [a.kwargs EXCEPT !.api_key = api_key]]

(***************************************************************************)
(* MoochSwitcher._execute, piece by piece                                  *)
(***************************************************************************)
\* Normalize without the isinstance branch: a str is enumerated as it is
Normalize_NoWrap(x) == x

\* if isinstance(api_keys, str): api_keys = [api_keys]
Normalize(x) == IF isinstance_str(x) THEN List(<<x>>) ELSE x

\* SelfAfterExecute with the normalized list written back to self.api_keys
SelfAfterExecute_WriteBack(self, keys) == [self EXCEPT !.api_keys = keys]

\* _execute rebinds its own parameter api_keys and only reads the list:
\* the wrapper that passed self.api_keys is as it was
SelfAfterExecute(self, keys) == self

\* the answers of the service move on by one position from one top-level
\* call to the next
Rotate(b) == [p \in 1..MaxPool |-> b[(p % MaxPool) + 1]]

\* StartIndex taking up where the call before stopped
StartIndex_Resume(prev) == prev

\* enumerate(api_keys) starts every run at index 0
StartIndex(prev) == 0

\* NextIndex standing still: the same key is tried again
NextIndex_Stay(n) == n

\* enumerate(api_keys) moves on by one
NextIndex(n) == n + 1

\* Frame with last_error kept in one place for all runs
Frame_Shared(r) == 1

\* api_keys, last_error, i, api_key, result are locals: each run of _execute
\* has them in its own frame
Frame(r) == r

\* can enumerate() iterate it
Iterable(x) == x.t \in {"list", "str"}

\* the items enumerate() yields: the elements of a list, the characters of a str
Items(x) ==
    IF x.t = "list" THEN x.v
    ELSE IF x.t = "str" THEN [j \in 1..Len(x.v) |-> Str(<<x.v[j]>>)]
    ELSE <<>>

\* len(api_keys)
PyLen(x) == Len(Items(x))

\* can api_key[:10] be evaluated
Sliceable(x) == x.t \in {"list", "str"}

\* api_key[:10]
Mask(x) ==
    [t |-> x.t,
     v |-> SubSeq(x.v, 1, IF Len(x.v) < MaskLen THEN Len(x.v) ELSE MaskLen)]

\* call_func(api_key), the p-th invocation of a run: what the underlying
\* call gives back for it
Invoke(p, key) ==
    IF behav[p] = "ok"
    THEN [kind |-> "return", value |-> [at |-> p, key |-> key]]
    ELSE [kind |-> "raise",
          error |-> [type |-> IF behav[p] = "rate" THEN "RateLimitError" ELSE "FatalError",
                     at |-> p, key |-> key]]

\* Handle with the except clause missing: a rate limit leaves the function
Handle_NoFallback(o) ==
    IF o.kind = "return" THEN "return" ELSE "propagate"

\* Handle with "except Exception": every failure moves on to the next key
Handle_CatchAll(o) ==
    IF o.kind = "return" THEN "return" ELSE "continue"

\* the try / except around the invocation: a result is returned, an
\* openai.RateLimitError is caught and the loop continues, anything else
\* leaves the function
Handle(o) ==
    IF o.kind = "return" THEN "return"
    ELSE IF o.error.type = "RateLimitError" THEN "continue"
    ELSE "propagate"

\* RecordError keeping the first error instead of the latest
RecordError_KeepFirst(vb, last, e) == IF last = NoneVal THEN e ELSE last

\* RecordError with the assignment indented under "if verbose:"
RecordError_OnlyVerbose(vb, last, e) == IF vb THEN e ELSE last

\* last_error = e
RecordError(vb, last, e) == e

\* RaiseLast raising a fresh "all keys failed" error instead of last_error
RaiseLast_New(last) == [kind |-> "raise", error |-> EngineError("RuntimeError")]

\* raise last_error (raising None is itself a TypeError)
RaiseLast(last) ==
    IF last = NoneVal THEN [kind |-> "raise", error |-> EngineError("TypeError")]
    ELSE [kind |-> "raise", error |-> last]

\* LineTrying printing the enumerate index i instead of i+1
LineTrying_ZeroBased(n, total, shown) ==
    [line |-> "trying", i |-> n - 1, n |-> total, shown |-> shown]

\* the lines _execute prints
LineBlank == [line |-> "blank"]
LineTrying(n, total, shown) == [line |-> "trying", i |-> n, n |-> total, shown |-> shown]
LineSuccess(n) == [line |-> "success", i |-> n]
LineRateLimit(n) == [line |-> "rate_limit", i |-> n]
LineAllFailed(total) == [line |-> "all_failed", n |-> total]

\* if verbose: print(...)
Printed(vb, sofar, lines) == IF vb THEN sofar \o lines ELSE sofar

(***************************************************************************)
(* State                                                                   *)
(***************************************************************************)
NoResult == [kind |-> "none"]

\* nothing has run yet
Fresh ==
    /\ pc = [r \in Sites |-> "start"]
    /\ target = [r \in Sites |-> "none"]
    /\ factory = [r \in Sites |-> NoneVal]
    /\ wrapper = [r \in Sites |-> NoneVal]
    /\ api_keys = [r \in Sites |-> NoneVal]
    /\ verbose = [r \in Sites |-> FALSE]
    /\ i = [r \in Sites |-> 0]
    /\ last_error = [r \in Sites |-> NoneVal]
    /\ calls = [r \in Sites |-> <<>>]
    /\ out = [r \in Sites |-> <<>>]
    /\ result = [r \in Sites |-> NoResult]
    /\ ncalls = [r \in Sites |-> 0]
    /\ switched = [r \in Sites |-> FALSE]
    /\ sent = [r \in Sites |-> <<>>]

\* the demo's usage: any argument for the pool, one top-level call per
\* wrapper, made with a model and messages
Init ==
    /\ arg \in [Sites -> Inputs]
    /\ \A r, s \in Sites : SameCredentials(arg[r], arg[s])
    /\ behav \in [1..MaxPool -> Outcomes]
    /\ opts = [r \in Sites |-> NoOptions]
    /\ kw = [r \in Sites |-> PlainCall]
    /\ Fresh

\* the caller is single-threaded: a site starts when the sites before it
\* have come to their end
Turn(r) == \A s \in Sites : s < r => pc[s] = "done"

\* MoochSwitcher(d)(target, verbose), the module's own instance mooch being
\* MoochSwitcher() with d = False
Enter(r) ==
    /\ pc[r] = "start"
    /\ \E d \in BOOLEAN, t \in Targets, v \in VerboseArgs :
         LET f == CallTarget(t, UseVerbose(MoochSwitcher(d), v)) IN
         /\ target' = [target EXCEPT ![r] = t]
         /\ IF f.kind = "factory"
            THEN /\ factory' = [factory EXCEPT ![r] = f]
                 /\ pc' = [pc EXCEPT ![r] = "factory"]
                 /\ UNCHANGED result
            ELSE /\ result' = [result EXCEPT ![r] = f]
                 /\ pc' = [pc EXCEPT ![r] = "done"]
                 /\ UNCHANGED factory
    /\ UNCHANGED <<arg, behav, wrapper, api_keys, verbose, i,
                   last_error, calls, out, opts, kw, ncalls, switched, sent>>

\* the same, made by a single-threaded caller when its turn has come
Dispatch(r) == Turn(r) /\ Enter(r)

\* factory(api_keys): the lambda __call__ returned builds the wrapper
Construct(r) ==
    /\ pc[r] = "factory"
    /\ LET w == IF factory[r].cls = "MoochForOpenAIClient"
                THEN NewOpenAIClient(WrapperId(r), arg[r], factory[r].verbose, opts[r])
                ELSE NewLiteLLMCompletion(WrapperId(r), arg[r], factory[r].verbose) IN
       IF w.kind = "object"
       THEN /\ wrapper' = [wrapper EXCEPT ![r] = w.object]
            /\ pc' = [pc EXCEPT ![r] = "wrapper"]
            /\ UNCHANGED result
       ELSE /\ result' = [result EXCEPT ![r] = w]
            /\ pc' = [pc EXCEPT ![r] = "done"]
            /\ UNCHANGED wrapper
    /\ UNCHANGED <<arg, behav, target, factory, api_keys, verbose,
                   i, last_error, calls, out, opts, kw, ncalls, switched, sent>>

\* client.chat.completions.create(...) / completion(...): the wrapper hands
\* its api_keys and verbose to _execute, which normalizes, clears last_error
\* and starts enumerating
TopCall(r) ==
    /\ pc[r] = "wrapper"
    /\ LET keys == Normalize(wrapper[r].api_keys) IN
       /\ api_keys' = [api_keys EXCEPT ![r] = keys]
       /\ verbose' = [verbose EXCEPT ![r] = wrapper[r].verbose]
       /\ last_error' = [last_error EXCEPT ![Frame(r)] = NoneVal]
       /\ i' = [i EXCEPT ![r] = StartIndex(@)]
       /\ ncalls' = [ncalls EXCEPT ![r] = @ + 1]
       /\ wrapper' = [wrapper EXCEPT ![r] = SelfAfterExecute(@, keys)]
       /\ IF Iterable(keys)
          THEN /\ pc' = [pc EXCEPT ![r] = "loop"]
               /\ UNCHANGED result
          ELSE /\ pc' = [pc EXCEPT ![r] = "done"]
               /\ result' = [result EXCEPT ![r] =
                                [kind |-> "raise", error |-> EngineError("TypeError")]]
    /\ UNCHANGED <<arg, behav, target, factory, calls, out,
                   opts, kw, switched, sent>>

\* self._call(api_key, *args, **kwargs) against the signature
\* _call(self, api_key, *args, **kwargs): a keyword api_key among the
\* caller's kwargs is a second value for the parameter, a TypeError
Binds(a) == a.kwargs.api_key = Absent

\* call_func(api_key): the wrapper's lambda hands the key and the caller's
\* arguments to the wrapper's _call, which reaches the wrapped target
CallFunc(r, p, key) ==
    IF wrapper[r].cls = "MoochForOpenAIClient"
    THEN OpenAICall(wrapper[r], ClientId(r, ncalls[r], p), key, kw[r])
    ELSE LiteLLMCall(wrapper[r], ClientId(r, ncalls[r], p), key, kw[r])

\* how call_func(api_key) comes back
CallOutcome(r, p, key) ==
    IF Binds(kw[r])
    THEN Invoke(p, key)
    ELSE [kind |-> "raise", error |-> [type |-> "TypeError", at |-> p, key |-> key]]

\* the head of one loop iteration, up to the point where the wrapped target
\* is entered; or, with nothing left to enumerate, the code after the loop
Try(r) ==
    /\ pc[r] = "loop"
    /\ IF i[r] < PyLen(api_keys[r])
       THEN LET key == Items(api_keys[r])[i[r] + 1] IN
            IF verbose[r] /\ ~Sliceable(key)
            THEN /\ out' = [out EXCEPT ![r] = Append(@, LineBlank)]
                 /\ result' = [result EXCEPT ![r] =
                                  [kind |-> "raise", error |-> EngineError("TypeError")]]
                 /\ pc' = [pc EXCEPT ![r] = "done"]
                 /\ UNCHANGED <<calls, sent>>
            ELSE /\ out' = [out EXCEPT ![r] =
                               Printed(verbose[r], @,
                                       <<LineBlank,
                                         LineTrying(i[r] + 1, PyLen(api_keys[r]), Mask(key))>>)]
                 /\ calls' = [calls EXCEPT ![r] = Append(@, [at |-> i[r] + 1, key |-> key])]
                 /\ sent' = [sent EXCEPT ![r] =
                                 IF Binds(kw[r])
                                 THEN Append(@, CallFunc(r, i[r] + 1, key))
                                 ELSE @]
                 /\ pc' = [pc EXCEPT ![r] = "calling"]
                 /\ UNCHANGED result
       ELSE /\ out' = [out EXCEPT ![r] =
                          Printed(verbose[r], @, <<LineAllFailed(PyLen(api_keys[r]))>>)]
            /\ result' = [result EXCEPT ![r] = RaiseLast(last_error[Frame(r)])]
            /\ pc' = [pc EXCEPT ![r] = "done"]
            /\ UNCHANGED <<calls, sent>>
    /\ UNCHANGED <<arg, behav, target, factory, wrapper, api_keys,
                   verbose, i, last_error, opts, kw, ncalls, switched>>

\* call_func comes back: return the result, or catch the rate limit and go
\* on to the next key, or let the exception through
Return(r) ==
    /\ pc[r] = "calling"
    /\ LET p == i[r] + 1
           o == CallOutcome(r, p, Items(api_keys[r])[p])
           h == Handle(o) IN
       IF h = "return"
       THEN /\ out' = [out EXCEPT ![r] = Printed(verbose[r], @, <<LineSuccess(p)>>)]
            /\ result' = [result EXCEPT ![r] = o]
            /\ pc' = [pc EXCEPT ![r] = "done"]
            /\ UNCHANGED <<i, last_error>>
       ELSE IF h = "continue"
       THEN /\ out' = [out EXCEPT ![r] = Printed(verbose[r], @, <<LineRateLimit(p)>>)]
            /\ last_error' = [last_error EXCEPT ![Frame(r)] =
                                 RecordError(verbose[r], @, o.error)]
            /\ i' = [i EXCEPT ![r] = NextIndex(@)]
            /\ pc' = [pc EXCEPT ![r] = "loop"]
            /\ UNCHANGED result
       ELSE /\ result' = [result EXCEPT ![r] = o]
            /\ pc' = [pc EXCEPT ![r] = "done"]
            /\ UNCHANGED <<i, last_error, out>>
    /\ UNCHANGED <<arg, behav, target, factory, wrapper, api_keys, verbose, calls,
                   opts, kw, ncalls, switched, sent>>

\* the caller makes one more top-level call on the wrapper it has; what the
\* call before left in the caller's hands is put aside
Again(r) ==
    /\ pc[r] = "done"
    /\ wrapper[r] # NoneVal
    /\ ncalls[r] < MaxCalls
    /\ pc' = [pc EXCEPT ![r] = "wrapper"]
    /\ behav' = Rotate(behav)
    /\ switched' = [switched EXCEPT ![r] =
                        @ \/ \E j \in 1..Len(calls[r]) : behav[calls[r][j].at] = "rate"]
    /\ api_keys' = [api_keys EXCEPT ![r] = NoneVal]
    /\ calls' = [calls EXCEPT ![r] = <<>>]
    /\ sent' = [sent EXCEPT ![r] = <<>>]
    /\ out' = [out EXCEPT ![r] = <<>>]
    /\ result' = [result EXCEPT ![r] = NoResult]
    /\ UNCHANGED <<arg, target, factory, wrapper, verbose, i, last_error,
                   opts, kw, ncalls>>

Next ==
    \E r \in Sites :
        \/ Dispatch(r)
        \/ Construct(r)
        \/ TopCall(r)
        \/ Try(r)
        \/ Return(r)

Spec == Init /\ [][Next]_vars

(***************************************************************************)
(* One wrapper called again and again                                      *)
(***************************************************************************)
\* the one site that acts
Caller == 1

\* a credential or a pool of credentials, any constructor options, and
\* calls with or without an api_key of the caller's own
InitCalls ==
    /\ arg \in [Sites -> Keys \cup Pools]
    /\ \A r \in Sites : arg[r] = arg[Caller]
    /\ behav \in [1..MaxPool -> Outcomes]
    /\ opts \in [Sites -> OptionChoices]
    /\ kw \in [Sites -> CallChoices]
    /\ \A r \in Sites : opts[r] = opts[Caller] /\ kw[r] = kw[Caller]
    /\ Fresh

NextCalls ==
    \/ Dispatch(Caller)
    \/ Construct(Caller)
    \/ TopCall(Caller)
    \/ Try(Caller)
    \/ Return(Caller)
    \/ Again(Caller)

SpecCalls == InitCalls /\ [][NextCalls]_vars

\* the caller's steps up to the end of one top-level call
NextOnce ==
    \/ Dispatch(Caller)
    \/ Construct(Caller)
    \/ TopCall(Caller)
    \/ Try(Caller)
    \/ Return(Caller)

\* one top-level call, on any argument, where a run of _execute that can
\* take its next step takes it and an invocation that has been made comes
\* back
SpecLive ==
    /\ Init
    /\ [][NextOnce]_vars
    /\ WF_vars(Try(Caller))
    /\ WF_vars(Return(Caller))

(***************************************************************************)
(* Two runs on different threads                                           *)
(***************************************************************************)
\* longest pool a thread is given
MaxThreadPool == 2

\* KeyA, KeyB, KeyA, ... up to n credentials
RECURSIVE Alternating(_)
Alternating(n) ==
    IF n = 0 THEN <<>>
    ELSE Append(Alternating(n - 1), IF n % 2 = 1 THEN KeyA ELSE KeyB)

ThreadPools == {List(Alternating(n)) : n \in 0..MaxThreadPool}

\* each thread has a pool of its own; the service answers by position
InitThreads ==
    /\ arg \in [Sites -> ThreadPools]
    /\ behav \in [1..MaxPool -> Outcomes]
    /\ \A p \in 1..MaxPool : p > MaxThreadPool => behav[p] = "ok"
    /\ opts = [r \in Sites |-> NoOptions]
    /\ kw = [r \in Sites |-> PlainCall]
    /\ Fresh

\* the threads take their steps in any order
NextThreads ==
    \E r \in Sites :
        \/ Enter(r)
        \/ Construct(r)
        \/ TopCall(r)
        \/ Try(r)
        \/ Return(r)

SpecThreads == InitThreads /\ [][NextThreads]_vars

(***************************************************************************)
(* Vocabulary of the properties                                            *)
(***************************************************************************)
\* site r has entered _execute
Executed(r) == api_keys[r] # NoneVal

\* the _execute run of site r has ended
Finished(r) == Executed(r) /\ pc[r] = "done"

\* the argument is one credential or a list of credentials
IsCredentials(x) == x \in Keys \cup Pools

\* the credentials an argument stands for, in order
Creds(x) == IF x.t = "str" THEN <<x>> ELSE x.v

\* the p-th invocation, made with credential key
Attempt(p, key) == [at |-> p, key |-> key]

\* invocations 1..n of site r's credentials, in pool order
InOrder(r, n) == [p \in 1..n |-> Attempt(p, Creds(arg[r])[p])]

IsPrefix(s, t) == Len(s) <= Len(t) /\ SubSeq(t, 1, Len(s)) = s

\* the first k invocations hit the rate limit
RateLimited(k) == \A p \in 1..k : behav[p] = "rate"

Returned(v) == [kind |-> "return", value |-> v]
Raised(type, p, key) == [kind |-> "raise", error |-> [type |-> type, at |-> p, key |-> key]]

(***************************************************************************)
(* C1..C3: the outcome of the retry loop                                   *)
(***************************************************************************)
\* C1: with credentials 1..k rate limited and credential k+1 succeeding,
\* _execute makes exactly the invocations 1..k+1, in pool order, and returns
\* the result of invocation k+1, whatever the later credentials would do.
C1_SequentialFallback ==
    \A r \in Sites :
        Executed(r) /\ IsCredentials(arg[r]) =>
            \A k \in 0..(Len(Creds(arg[r])) - 1) :
                RateLimited(k) /\ behav[k + 1] = "ok" =>
                    /\ IsPrefix(calls[r], InOrder(r, k + 1))
                    /\ pc[r] = "done" =>
                          /\ calls[r] = InOrder(r, k + 1)
                          /\ result[r] = Returned(Attempt(k + 1, Creds(arg[r])[k + 1]))

\* a run over three credentials, the first rate limited, the second
\* succeeding, the third one that would have failed
C1_Witness ==
    \E r \in Sites :
        /\ Finished(r)
        /\ arg[r] = List(<<KeyA, KeyB, KeyA>>)
        /\ behav[1] = "rate" /\ behav[2] = "ok" /\ behav[3] = "fatal"
        /\ result[r].kind = "return"
        /\ Len(calls[r]) = 2

\* C2: with credentials 1..j-1 rate limited and credential j failing with
\* any other error, _execute makes exactly the invocations 1..j and lets
\* that error through, also when j < N.
C2_FatalShortCircuit ==
    \A r \in Sites :
        Executed(r) /\ IsCredentials(arg[r]) =>
            \A j \in 1..Len(Creds(arg[r])) :
                RateLimited(j - 1) /\ behav[j] = "fatal" =>
                    /\ IsPrefix(calls[r], InOrder(r, j))
                    /\ pc[r] = "done" =>
                          /\ calls[r] = InOrder(r, j)
                          /\ result[r] = Raised("FatalError", j, Creds(arg[r])[j])

\* a run over three credentials that ends on the second one's fatal error
C2_Witness ==
    \E r \in Sites :
        /\ Finished(r)
        /\ Len(Creds(arg[r])) = 3
        /\ behav[1] = "rate" /\ behav[2] = "fatal"
        /\ result[r].kind = "raise"
        /\ Len(calls[r]) = 2

\* C3: with all N >= 1 credentials rate limited, _execute makes exactly the
\* invocations 1..N in pool order and raises the error of invocation N.
C3_ExhaustionLastError ==
    \A r \in Sites :
        Executed(r) /\ IsCredentials(arg[r]) =>
            LET N == Len(Creds(arg[r])) IN
            N >= 1 /\ RateLimited(N) =>
                /\ IsPrefix(calls[r], InOrder(r, N))
                /\ pc[r] = "done" =>
                      /\ calls[r] = InOrder(r, N)
                      /\ result[r] = Raised("RateLimitError", N, Creds(arg[r])[N])

\* a run that went through three rate-limited credentials
C3_Witness ==
    \E r \in Sites :
        /\ Finished(r)
        /\ arg[r] = List(<<KeyA, KeyB, KeyB>>)
        /\ RateLimited(3)
        /\ Len(calls[r]) = 3
        /\ result[r].kind = "raise"

(***************************************************************************)
(* C4, C5: the empty credential list                                       *)
(***************************************************************************)
\* C4: a wrapper is never built from an empty credential list, whichever
\* adapter is asked for: construction fails, and no empty list ever
\* reaches _execute.
C4_EmptyPoolRejected ==
    \A r \in Sites :
        arg[r] = List(<<>>) =>
            /\ wrapper[r] = NoneVal
            /\ ~Executed(r)
            /\ pc[r] \notin {"wrapper", "loop", "calling"}

\* C5: a run of _execute over credentials (none, one or more) ends either
\* with the result of a successful invocation of that run or with an error
\* that an invocation of that run raised.
C5_ResultOrRaisedError ==
    \A r \in Sites :
        Finished(r) /\ IsCredentials(arg[r]) =>
            \/ /\ result[r].kind = "return"
               /\ \E p \in 1..Len(calls[r]) :
                     /\ behav[p] = "ok"
                     /\ result[r].value = calls[r][p]
            \/ /\ result[r].kind = "raise"
               /\ \E p \in 1..Len(calls[r]) :
                     /\ behav[p] # "ok"
                     /\ result[r].error.at = p
                     /\ result[r].error.key = calls[r][p].key

(***************************************************************************)
(* C6, C7: one credential                                                  *)
(***************************************************************************)
\* C6: over a single credential _execute does what one direct call of the
\* invoker does: one invocation with that credential, whose result is
\* returned and whose error, rate limit or not, is raised.
C6_SingleCredential ==
    \A r \in Sites :
        Executed(r) /\ IsCredentials(arg[r]) /\ Len(Creds(arg[r])) = 1 =>
            LET key == Creds(arg[r])[1] IN
            /\ IsPrefix(calls[r], <<Attempt(1, key)>>)
            /\ pc[r] = "done" =>
                  /\ calls[r] = <<Attempt(1, key)>>
                  /\ result[r] = Invoke(1, key)

\* a run over a one-element list whose only invocation hit the rate limit
C6_Witness ==
    \E r \in Sites :
        /\ Finished(r)
        /\ arg[r] = List(<<KeyB>>)
        /\ behav[1] = "rate"
        /\ result[r].kind = "raise"
        /\ Len(calls[r]) = 1

\* C7: a credential given as the string k and as the list [k] is treated
\* alike: the same local list, one invocation with the whole string as
\* credential, the same outcome; and a list argument is enumerated as given.
C7_NormalizeStrAsList ==
    /\ \A r, s \in Sites :
          arg[r] \in Keys /\ arg[s] = List(<<arg[r]>>) =>
              /\ Executed(r) => api_keys[r] = arg[s]
              /\ Executed(s) => api_keys[s] = arg[s]
              /\ IsPrefix(calls[r], <<Attempt(1, arg[r])>>)
              /\ IsPrefix(calls[s], <<Attempt(1, arg[r])>>)
              /\ Finished(r) /\ Finished(s) =>
                    /\ calls[r] = calls[s]
                    /\ Len(calls[r]) = 1
                    /\ result[r] = result[s]
    /\ \A r \in Sites :
          Executed(r) /\ arg[r].t = "list" => api_keys[r] = arg[r]

\* one site gave the long credential as a string, the other as a list, and
\* both runs have ended
C7_Witness ==
    \E r, s \in Sites :
        /\ arg[r] = KeyA /\ arg[s] = List(<<KeyA>>)
        /\ Finished(r) /\ Finished(s)
        /\ calls[r] = <<Attempt(1, KeyA)>>
        /\ result[r].kind = "return"

(***************************************************************************)
(* C8: arguments that are no credentials                                   *)
(***************************************************************************)
\* C8: given an argument that is neither a credential string nor a list of
\* credential strings, _execute makes no invocation and ends with an error.
C8_InvalidInputRejected ==
    \A r \in Sites :
        Executed(r) /\ ~IsCredentials(arg[r]) =>
            /\ calls[r] = <<>>
            /\ pc[r] = "done" => result[r].kind = "raise"

(***************************************************************************)
(* C9: the dispatch on the target                                          *)
(***************************************************************************)
\* C9: mooch(target) raises ValueError for every target other than
\* openai.OpenAI and litellm.completion and then builds no wrapper; for
\* openai.OpenAI it gives a factory of MoochForOpenAIClient, for
\* litellm.completion a factory of MoochForLiteLLMCompletion.
C9_TargetDispatch ==
    \A r \in Sites :
        pc[r] # "start" =>
            /\ target[r] \notin {"openai.OpenAI", "litellm.completion"} =>
                  /\ pc[r] = "done"
                  /\ result[r] = [kind |-> "raise", error |-> EngineError("ValueError")]
                  /\ factory[r] = NoneVal
                  /\ wrapper[r] = NoneVal
            /\ target[r] = "openai.OpenAI" =>
                  /\ factory[r] # NoneVal
                  /\ factory[r].kind = "factory"
                  /\ factory[r].cls = "MoochForOpenAIClient"
                  /\ wrapper[r] # NoneVal => wrapper[r].cls = "MoochForOpenAIClient"
            /\ target[r] = "litellm.completion" =>
                  /\ factory[r] # NoneVal
                  /\ factory[r].kind = "factory"
                  /\ factory[r].cls = "MoochForLiteLLMCompletion"
                  /\ wrapper[r] # NoneVal => wrapper[r].cls = "MoochForLiteLLMCompletion"

\* one site was refused an unsupported target, the other built an OpenAI
\* wrapper
C9_Witness ==
    \E r, s \in Sites :
        /\ target[r] = "openai.AsyncOpenAI"
        /\ result[r].kind = "raise"
        /\ target[s] = "openai.OpenAI"
        /\ wrapper[s] # NoneVal

(***************************************************************************)
(* C10: the verbose flag                                                   *)
(***************************************************************************)
\* C10: over the same credentials and the same invoker behaviour, a verbose
\* run and a silent run of _execute make the same invocations and end the
\* same way; a silent run prints nothing.
C10_VerboseNoEffect ==
    /\ \A r, s \in Sites :
          /\ Finished(r) /\ Finished(s)
          /\ IsCredentials(arg[r]) /\ IsCredentials(arg[s])
          /\ Creds(arg[r]) = Creds(arg[s])
          /\ verbose[r] /\ ~verbose[s]
          => /\ calls[r] = calls[s]
             /\ result[r] = result[s]
    /\ \A s \in Sites : ~verbose[s] => out[s] = <<>>

\* a verbose and a silent run over two credentials, both rate limited, have
\* ended; the verbose one printed
C10_Witness ==
    \E r, s \in Sites :
        /\ Finished(r) /\ Finished(s)
        /\ arg[r] = List(<<KeyA, KeyB>>) /\ arg[s] = arg[r]
        /\ verbose[r] /\ ~verbose[s]
        /\ RateLimited(2)
        /\ Len(out[r]) > 0
        /\ Len(calls[s]) = 2

(***************************************************************************)
(* C11, C14, C15: what a verbose run prints                                *)
(***************************************************************************)
\* the lines of site r that say something (print() alone gives an empty line)
Events(r) == SelectSeq(out[r], LAMBDA l : l.line # "blank")

\* the "Trying API key" lines of site r
TryingLines(r) == SelectSeq(out[r], LAMBDA l : l.line = "trying")

\* how often a line of the given kind and index occurs in a sequence of lines
Count(lines, kind, p) ==
    Cardinality({j \in 1..Len(lines) : lines[j].line = kind /\ lines[j].i = p})

\* C11: a "Trying API key" line never shows a whole credential: what it
\* shows is strictly shorter than the credential of that attempt.
C11_NeverFullCredential ==
    \A r \in Sites :
        IsCredentials(arg[r]) =>
            \A j \in 1..Len(TryingLines(r)) :
                LET l == TryingLines(r)[j]
                    key == Creds(arg[r])[l.i] IN
                /\ l.shown # key
                /\ Len(l.shown.v) < Len(key.v)

\* C14 as stated: in a verbose run that has ended, every attempt that was
\* announced has exactly one outcome line (success, rate limit or fatal)
\* for its index, a fatal failure included.
C14_EveryAttemptHasOutcomeLine ==
    \A r \in Sites :
        Finished(r) /\ verbose[r] /\ IsCredentials(arg[r]) =>
            \A p \in 1..Len(calls[r]) :
                /\ Count(out[r], "trying", p) = 1
                /\ Count(out[r], "success", p) + Count(out[r], "rate_limit", p)
                      + Count(out[r], "fatal", p) = 1

\* C14 as the code has it: in a verbose run that has ended, an attempt that
\* succeeded or hit the rate limit has exactly one outcome line for its
\* index, after its "Trying" line; an attempt that failed with another
\* error has none: its "Trying" line is the last line printed and its error
\* is what the run raises.
C14_OutcomeLineUnlessFatal ==
    \A r \in Sites :
        Finished(r) /\ verbose[r] /\ IsCredentials(arg[r]) =>
            \A p \in 1..Len(calls[r]) :
                /\ Count(out[r], "trying", p) = 1
                /\ Count(out[r], "fatal", p) = 0
                /\ behav[p] = "fatal" =>
                      /\ Count(out[r], "success", p) + Count(out[r], "rate_limit", p) = 0
                      /\ out[r][Len(out[r])].line = "trying"
                      /\ out[r][Len(out[r])].i = p
                      /\ result[r] = Raised("FatalError", p, Creds(arg[r])[p])
                /\ behav[p] # "fatal" =>
                      /\ Count(out[r], "success", p) = (IF behav[p] = "ok" THEN 1 ELSE 0)
                      /\ Count(out[r], "rate_limit", p) = (IF behav[p] = "rate" THEN 1 ELSE 0)
                      /\ Events(r)[2 * p - 1].line = "trying"
                      /\ Events(r)[2 * p].i = p

\* a verbose run that ended on the second credential's fatal error, with
\* the "Trying" line of attempt 2 as its last line
C14_Witness ==
    \E r \in Sites :
        /\ Finished(r) /\ verbose[r]
        /\ arg[r] = List(<<KeyA, KeyB, KeyA>>)
        /\ behav[1] = "rate" /\ behav[2] = "fatal"
        /\ result[r].kind = "raise"
        /\ Len(out[r]) > 0
        /\ out[r][Len(out[r])].line = "trying"
        /\ out[r][Len(out[r])].i = 2

\* C15: in a verbose run whose attempts so far succeeded or hit the rate
\* limit, the lines are, attempt by attempt from 1: "Trying i/N", printed
\* when invocation i is made, then "Success i" or "Rate limit i" once it
\* has answered; "All N failed" comes iff all N attempts hit the rate
\* limit, as the last line; k rate limits followed by a success leave k
\* "Rate limit" lines and one "Success" line.
C15_EventOrder ==
    \A r \in Sites :
        /\ Executed(r) /\ verbose[r] /\ IsCredentials(arg[r])
        /\ \A p \in 1..Len(calls[r]) : behav[p] # "fatal"
        => LET E == Events(r)
               N == Len(Creds(arg[r]))
               m == Len(calls[r])
               c == IF pc[r] = "calling" THEN m - 1 ELSE m
               exhausted == pc[r] = "done" /\ m = N /\ RateLimited(N) IN
           /\ Len(E) = m + c + (IF exhausted THEN 1 ELSE 0)
           /\ \A p \in 1..m :
                 /\ E[2 * p - 1].line = "trying"
                 /\ E[2 * p - 1].i = p
                 /\ E[2 * p - 1].n = N
           /\ \A p \in 1..c :
                 E[2 * p] = [line |-> IF behav[p] = "ok" THEN "success" ELSE "rate_limit",
                             i |-> p]
           /\ exhausted => E[Len(E)] = [line |-> "all_failed", n |-> N]
           /\ pc[r] = "done" /\ result[r].kind = "return" =>
                 /\ Len(SelectSeq(E, LAMBDA l : l.line = "rate_limit")) = m - 1
                 /\ Len(SelectSeq(E, LAMBDA l : l.line = "success")) = 1

\* the verbose run over k1, k2, k3 with two rate limits and a success
C15_Witness ==
    \E r \in Sites :
        /\ Finished(r) /\ verbose[r]
        /\ arg[r] = List(<<KeyA, KeyB, KeyA>>)
        /\ behav[1] = "rate" /\ behav[2] = "rate" /\ behav[3] = "ok"
        /\ Len(Events(r)) = 6
        /\ result[r].kind = "return"

(***************************************************************************)
(* C12: the credential pool is only read                                   *)
(***************************************************************************)
\* site r has a wrapper and has made n top-level calls on it, the last of
\* which has ended
CallsEnded(r, n) == wrapper[r] # NoneVal /\ ncalls[r] = n /\ pc[r] = "done"

\* C12: at every point of every sequence of top-level calls on a wrapper,
\* whatever the calls' outcomes, the wrapper's stored api_keys is the value
\* it was constructed with: same elements, same order, same length.
C12_PoolNeverMutated ==
    \A r \in Sites :
        wrapper[r] # NoneVal => wrapper[r].api_keys = arg[r]

\* two calls on a wrapper of a three-credential pool have ended, the first
\* switched credentials after a rate limit, the second died of a fatal error
C12_Witness ==
    /\ CallsEnded(Caller, 2)
    /\ Len(Creds(arg[Caller])) = 3
    /\ switched[Caller]
    /\ result[Caller].kind = "raise"
    /\ result[Caller].error.type = "FatalError"
    /\ wrapper[Caller].api_keys = arg[Caller]

(***************************************************************************)
(* C16: no memory between top-level calls                                  *)
(***************************************************************************)
\* C16: in every top-level call on a wrapper, the first one and every later
\* one, whatever the earlier calls met, the invocations made so far are the
\* pool's credentials from the first on, in pool order, none skipped; and a
\* call over a pool that is not empty does invoke the first credential.
C16_EveryCallStartsAtFirst ==
    \A r \in Sites :
        Executed(r) =>
            /\ IsPrefix(calls[r], InOrder(r, Len(Creds(arg[r]))))
            /\ pc[r] \in {"calling", "done"} /\ Len(Creds(arg[r])) > 0
                   => Len(calls[r]) >= 1 /\ calls[r][1] = Attempt(1, Creds(arg[r])[1])

\* the second call on a wrapper whose first call switched credentials: it
\* began with the first credential again and has gone on to the second
C16_Witness ==
    /\ ncalls[Caller] = 2
    /\ switched[Caller]
    /\ Len(calls[Caller]) = 2
    /\ calls[Caller][1] = Attempt(1, Creds(arg[Caller])[1])
    /\ calls[Caller][2] = Attempt(2, Creds(arg[Caller])[2])

(***************************************************************************)
(* C17: the LiteLLM wrapper's underlying calls                             *)
(***************************************************************************)
\* C17: in a MoochForLiteLLMCompletion call every attempt reaches
\* litellm.completion with that attempt's credential as api_key, whatever
\* api_key the caller gave, and with the caller's positional arguments and
\* other keywords as the caller gave them, the same in every attempt.
C17_InjectedKeyOverrides ==
    \A r \in Sites :
        wrapper[r] # NoneVal /\ wrapper[r].cls = "MoochForLiteLLMCompletion" =>
            /\ Len(sent[r]) = Len(calls[r])
            /\ \A j \in 1..Len(calls[r]) :
                   /\ sent[r][j].fn = "litellm.completion"
                   /\ sent[r][j].kwargs.api_key = calls[r][j].key
                   /\ sent[r][j].args = kw[r].args
                   /\ sent[r][j].kwargs.model = kw[r].kwargs.model

(***************************************************************************)
(* C18: the OpenAI wrapper's clients                                       *)
(***************************************************************************)
\* C18: through every sequence of calls on a MoochForOpenAIClient the
\* wrapper itself stays bound to the first credential of its pool and keeps
\* the constructor options it was given; and every attempt of a call (made
\* with arguments create accepts) invokes create on a client of its own,
\* built for that attempt with the attempt's credential and the wrapper's
\* constructor options, never on the wrapper and never on a client of
\* another attempt.
C18_FreshClientPerAttempt ==
    \A r \in Sites :
        wrapper[r] # NoneVal /\ wrapper[r].cls = "MoochForOpenAIClient" =>
            /\ wrapper[r].api_key = Creds(arg[r])[1]
            /\ wrapper[r].init_args = opts[r].args
            /\ wrapper[r].init_kwargs = opts[r].kwargs
            /\ Binds(kw[r]) =>
                   /\ Len(sent[r]) = Len(calls[r])
                   /\ \A j \in 1..Len(calls[r]) :
                          /\ sent[r][j].fn = "chat.completions.create"
                          /\ sent[r][j].client.api_key = calls[r][j].key
                          /\ sent[r][j].client.args = opts[r].args
                          /\ sent[r][j].client.kwargs = opts[r].kwargs
                          /\ sent[r][j].client.id # wrapper[r].id
                          /\ \A k \in 1..Len(calls[r]) :
                                 k # j => sent[r][k].client.id # sent[r][j].client.id

(***************************************************************************)
(* C13: runs on different threads                                          *)
(***************************************************************************)
\* _execute over the credentials keys from index n on, run from beginning
\* to end with nothing else going on: the invocations it makes after made,
\* and how it ends
RECURSIVE RunAlone(_, _, _, _, _)
RunAlone(keys, vb, n, last, made) ==
    IF n >= Len(keys)
    THEN [calls |-> made, result |-> RaiseLast(last)]
    ELSE LET key == keys[n + 1]
             o == Invoke(n + 1, key)
             now == Append(made, Attempt(n + 1, key)) IN
         IF Handle(o) = "continue"
         THEN RunAlone(keys, vb, n + 1, RecordError(vb, last, o.error), now)
         ELSE [calls |-> now, result |-> o]

ExecuteAlone(x, vb) == RunAlone(Items(Normalize(x)), vb, 0, NoneVal, <<>>)

\* C13: however the steps of two runs of _execute are interleaved, each run,
\* working on its own pool, has at every moment made invocations that a run
\* alone on that pool makes, in the same order, and when it has ended it has
\* made all of them and ended as the run alone ends.
C13_InterleavedRunsAsAlone ==
    \A r \in Sites :
        Executed(r) =>
            LET alone == ExecuteAlone(arg[r], verbose[r]) IN
            /\ IsPrefix(calls[r], alone.calls)
            /\ pc[r] = "done" => calls[r] = alone.calls /\ result[r] = alone.result

\* both runs are inside call_func at the same moment, on different pools:
\* one has been rate-limited once and is at its second credential, the other
\* is at its first
C13_Witness ==
    /\ pc[1] = "calling" /\ pc[2] = "calling"
    /\ arg[1] # arg[2]
    /\ Len(calls[1]) = 2
    /\ Len(calls[2]) = 1
    /\ last_error[1] # NoneVal

(***************************************************************************)
(* C19: a run ends, within len(pool) invocations                           *)
(***************************************************************************)
\* the invocations a run has made are one per pool position, from the first
\* position on in pool order, at most len(pool) of them, and the run starts
\* one only when the ones before it have come back with a rate limit
C19_OnePerPosition ==
    \A r \in Sites :
        Executed(r) /\ Iterable(api_keys[r]) =>
            /\ Len(calls[r]) <= PyLen(api_keys[r])
            /\ \A j \in 1..Len(calls[r]) :
                   calls[r][j] = Attempt(j, Items(api_keys[r])[j])
            /\ \A j, k \in 1..Len(calls[r]) :
                   j # k => calls[r][j].at # calls[r][k].at
            /\ Len(calls[r]) - i[r] \in {0, 1}
            /\ pc[r] = "calling" <=> (pc[r] # "done" /\ Len(calls[r]) - i[r] = 1)

\* C19: when every invocation made comes back, every run of _execute that
\* has begun comes to its end; and all along it has made at most len(pool)
\* invocations, one per pool position, a prefix of the pool in pool order,
\* never two at a time.
C19_RunTerminates ==
    /\ []C19_OnePerPosition
    /\ \A r \in Sites : Executed(r) ~> Finished(r)

\* a run over three credentials has ended after invoking every one of them
C19_Witness ==
    /\ Finished(Caller)
    /\ PyLen(api_keys[Caller]) = 3
    /\ Len(calls[Caller]) = 3
    /\ i[Caller] = 3

====
